---- MODULE Spec2Model ----
(***************************************************************************)
(* A model of the CHOMP planner front end:                                 *)
(*   - ChompPlanner::solve (chomp_planner.cpp): request validation, the    *)
(*     recovery loop around the optimizer, the output and the two gates;   *)
(*   - ChompTrajectory (chomp_trajectory.cpp): the constructors, the       *)
(*     padded copy and fillInFromTrajectory.                               *)
(* Doubles that the code only adds fixed increments to are carried in      *)
(* integer units: learning_rate in 1/100, ridge_factor in 1/1000.          *)
(***************************************************************************)
EXTENDS Integers, Sequences, FiniteSets, TLC

VARIABLES
    pc,                \* position of solve: "start", "loop", "post", "returned"
    req,               \* the MotionPlanRequest as far as solve reads it
    params,            \* the caller's const ChompParameters&
    params_nonconst,   \* solve's working copy, handed to every optimizer
    org,               \* org_learning_rate, org_ridge_factor, ... (lines 188-195)
    replan_count,
    replan_flag,
    optimizer,         \* the optimizer held by the unique_ptr (last one built)
    optimizers_created,\* how many ChompOptimizer objects were constructed
    optimize_calls,    \* how many times optimize() was called
    trajectory,        \* solve's ChompTrajectory: rows of joint positions
    res,               \* the MotionPlanDetailedResponse
    ret,               \* solve's return value: "none" until it returns, "true", "false"
    failure,           \* which failure kind made solve return, "None" otherwise
    traj_pc,           \* trajectory buffers built so far: "none", "created", "padded"
    source_traj,       \* a ChompTrajectory (the source of a padded copy)
    group_traj,        \* the padded copy made of source_traj
    diff_rule_length,  \* the diff_rule_length the padded copy was made with
    junk_row,          \* what a read outside the source's rows gave the copy
    root_points,       \* num_points of the un-padded buffer the buffers descend from
    fill_pc,           \* fillInFromTrajectory: "ready" or "done"
    num_input_points,  \* trajectory.getWayPointCount() of the input trajectory
    num_chomp_points,  \* getNumPoints() of the trajectory being filled
    fill_writes,       \* the row assignments made, in order: <<chomp row, input point>>
    fill_rows,         \* per chomp row, the input point it holds (-1: never written)
    fill_ret,          \* the return value: "none" before the call, "true", "false"
    out_pc,            \* the output loop of solve on its own: "ready" or "done"
    out_joints,        \* trajectory.getNumJoints(): active joints 1..out_joints
    out_points,        \* trajectory.getNumPoints()
    out_traj,          \* the optimized trajectory: rows of joint positions
    out_waypoints,     \* the waypoints added to result, in order
    out_vel_reads      \* the indices at which initial_vel was read

solveVars == <<pc, req, params, params_nonconst, org, replan_count, replan_flag,
               optimizer, optimizers_created, optimize_calls, trajectory, res,
               ret, failure>>

trajVars == <<traj_pc, source_traj, group_traj, diff_rule_length, junk_row,
              root_points>>

fillVars == <<fill_pc, num_input_points, num_chomp_points, fill_writes, fill_rows,
              fill_ret>>

outVars == <<out_pc, out_joints, out_points, out_traj, out_waypoints,
             out_vel_reads>>

vars == <<solveVars, trajVars, fillVars, outVars>>

(***************************************************************************)
(* Bounds of the model.                                                    *)
(***************************************************************************)
MaxRecovery == 2        \* max_recovery_attempts_ ranges over 0..MaxRecovery
MaxConstraints == 2     \* joint constraints of the goal: 0..MaxConstraints
SolveNumPoints == 2     \* rows of solve's trajectory (89 in the build, line 69)

Positions == {0, 1}     \* joint positions
Tolerances == {0, 1}    \* joint constraint tolerances

Joints == {1}           \* active joints of the planning group
Rows == 0..(SolveNumPoints - 1)
TrajContents == [Rows -> [Joints -> Positions]]

\* moveit_msgs::JointConstraint, with the outcome of jc.configure(constraint)
JointConstraints ==
    [joint_name : Joints, position : Positions, tolerance : Tolerances,
     configurable : BOOLEAN]

JointConstraintSeqs ==
    UNION {[1..n -> JointConstraints] : n \in 0..MaxConstraints}

\* the values a caller may hand in (learning_rate in 1/100, ridge_factor in 1/1000)
CallerParams ==
    [learning_rate_ : {7}, ridge_factor_ : {1}, planning_time_limit_ : {12},
     max_iterations_ : {150}, enable_failure_recovery_ : BOOLEAN,
     max_recovery_attempts_ : 0..MaxRecovery]

(***************************************************************************)
(* Result codes and failure kinds.                                         *)
(***************************************************************************)
FailureKinds ==
    {"NoPlanningScene", "InvalidStartState", "UnsupportedGoalType",
     "InvalidGoalState", "OptimizerInitFailed", "CollisionDetected",
     "GoalToleranceViolated"}

EntryFailures ==
    {"NoPlanningScene", "InvalidStartState", "UnsupportedGoalType",
     "InvalidGoalState"}

\* the res.error_code_.val each return site of solve sets
ErrorCodeOf(kind) ==
    CASE kind = "NoPlanningScene"       -> "FAILURE"
      [] kind = "InvalidStartState"     -> "INVALID_ROBOT_STATE"
      [] kind = "UnsupportedGoalType"   -> "INVALID_GOAL_CONSTRAINTS"
      [] kind = "InvalidGoalState"      -> "INVALID_ROBOT_STATE"
      [] kind = "OptimizerInitFailed"   -> "PLANNING_FAILED"
      [] kind = "CollisionDetected"     -> "INVALID_MOTION_PLAN"
      [] kind = "GoalToleranceViolated" -> "GOAL_CONSTRAINTS_VIOLATED"
      [] OTHER                          -> "SUCCESS"

\* lines 51-96: the first check that fails, in the order of the code
EntryCheck(planning_scene, start_ok, n_goals, jcs, pos_c, ori_c, goal_ok) ==
    IF ~planning_scene THEN "NoPlanningScene"
    ELSE IF ~start_ok THEN "InvalidStartState"
    ELSE IF n_goals # 1 THEN "UnsupportedGoalType"
    ELSE IF Len(jcs) = 0 \/ pos_c \/ ori_c THEN "UnsupportedGoalType"
    ELSE IF ~goal_ok THEN "InvalidGoalState"
    ELSE "None"

\* lines 88-90: goal_state starts as start_state, each constraint sets its joint
RECURSIVE GoalState(_, _)
GoalState(state, jcs) ==
    IF jcs = <<>> THEN state
    ELSE GoalState([state EXCEPT ![Head(jcs).joint_name] = Head(jcs).position],
                   Tail(jcs))

\* ChompParameters::setRecoveryParams
setRecoveryParams(p, learning_rate, ridge_factor, planning_time_limit, max_iterations) ==
    [p EXCEPT !.learning_rate_ = learning_rate,
              !.ridge_factor_ = ridge_factor,
              !.planning_time_limit_ = planning_time_limit,
              !.max_iterations_ = max_iterations]

EscalateAlways(p, flag) ==
    setRecoveryParams(p, p.learning_rate_ + 2, p.ridge_factor_ + 2,
                      p.planning_time_limit_ + 5, p.max_iterations_ + 50)

\* lines 205-211: the escalation at the top of a repeated iteration
Escalate(p, flag) ==
    IF flag
    THEN setRecoveryParams(p, p.learning_rate_ + 2, p.ridge_factor_ + 2,
                           p.planning_time_limit_ + 5, p.max_iterations_ + 50)
    ELSE p

ShouldReplanOffByOne(p, optimization_result, count) ==
    /\ p.enable_failure_recovery_
    /\ ~optimization_result
    /\ count <= p.max_recovery_attempts_

\* lines 229-249: whether the loop goes round again
ShouldReplan(p, optimization_result, count) ==
    /\ p.enable_failure_recovery_
    /\ ~optimization_result
    /\ count < p.max_recovery_attempts_

\* kinematic_constraints::JointConstraint::decide on the last waypoint
Decide(c, last_state) ==
    LET dif == last_state[c.joint_name] - c.position
    IN  dif <= c.tolerance /\ dif >= -c.tolerance

GoalCheckFirstOnly(jcs, last_state) ==
    IF jcs = <<>> THEN TRUE
    ELSE Head(jcs).configurable /\ Decide(Head(jcs), last_state)

\* lines 315-325: TRUE when the loop over the joint constraints finds no violation
RECURSIVE GoalCheck(_, _)
GoalCheck(jcs, last_state) ==
    IF jcs = <<>> THEN TRUE
    ELSE IF ~Head(jcs).configurable \/ ~Decide(Head(jcs), last_state) THEN FALSE
    ELSE GoalCheck(Tail(jcs), last_state)

(***************************************************************************)
(* The output of solve, lines 261-293.  Velocities are carried in units of *)
(* 1/6 of a position unit per step (the rule's coefficients are sixths),   *)
(* durations in tenths of a second.                                        *)
(***************************************************************************)
InitialVelSize == 7     \* line 265: std::vector<double> initial_vel(7, 0.0)
WaypointStep == 1       \* line 292: addSuffixWayPoint(state, 0.1)

JunkVelocities == {0, 5} \* what a read past the end of initial_vel may give

\* DIFF_RULES[0], the velocity rule, times 6: the coefficients of the points
\* i-3 .. i+3
DiffRule == <<0, 0, -2, -3, 6, -1, 0>>

\* ChompCost::getDiffMatrix: entry (i, k) of the banded matrix; the entries
\* of the band that fall outside the matrix are dropped
DiffMatrix(num_point, i, k) ==
    IF k - i \in -3..3 /\ k \in 0..(num_point - 1) THEN DiffRule[(k - i) + 4] ELSE 0

RECURSIVE RowTimesColumn(_, _, _, _, _)
RowTimesColumn(traj, num_point, i, j, k) ==
    IF k >= num_point THEN 0
    ELSE DiffMatrix(num_point, i, k) * traj[k][j]
         + RowTimesColumn(traj, num_point, i, j, k + 1)

\* lines 269-271: velocity_matrix(i, j) = (diff_matrix * getJointTrajectory(j))(i)
VelocityMatrix(traj, num_point, i, j) == RowTimesColumn(traj, num_point, i, j, 0)

\* line 287: initial_vel[vel_index]; past the end of the vector the read is
\* out of bounds and gives whatever lies there (junk)
InitialVelAt(vel_index, junk) == IF vel_index < InitialVelSize THEN 0 ELSE junk

\* lines 286-290: the velocity set for the joint with index vel_index of row i
WaypointVelocity(traj, num_point, i, vel_index, junk) ==
    IF i = 0 \/ i = num_point - 1
    THEN InitialVelAt(vel_index, junk)
    ELSE VelocityMatrix(traj, num_point, i, vel_index + 1)

\* line 292: the duration from the previous waypoint given to row i
WaypointDuration(i) == WaypointStep

\* lines 274-293: one waypoint per trajectory row; joint j has index j - 1
FilledWaypoints(traj, num_point, num_joint, junk) ==
    [r \in 1..num_point |->
        [positions |-> traj[r - 1],
         velocities |-> [j \in 1..num_joint |->
                           WaypointVelocity(traj, num_point, r - 1, j - 1, junk)],
         duration_from_previous |-> WaypointDuration(r - 1)]]

\* lines 286-287: the indices of initial_vel the loop reads
InitialVelReads(num_point, num_joint) ==
    IF num_point >= 1 THEN 0..(num_joint - 1) ELSE {}

\* lines 274-296 in solve, whose planning group has the joints Joints
ResultWaypoints(traj) ==
    FilledWaypoints(traj, SolveNumPoints, Cardinality(Joints), 0)

NoOptimizer == [isInitialized |-> FALSE, optimization_result |-> FALSE,
                isCollisionFree |-> FALSE]
NoRequest == [joint_constraints |-> <<>>]
NoParams == [learning_rate_ |-> 0, ridge_factor_ |-> 0, planning_time_limit_ |-> 0,
             max_iterations_ |-> 0, enable_failure_recovery_ |-> FALSE,
             max_recovery_attempts_ |-> 0]
\* lines 188-189: the initial values of the org_ variables
OrgDefaults == [learning_rate_ |-> 4, ridge_factor_ |-> 0,
                planning_time_limit_ |-> 10, max_iterations_ |-> 200]
ZeroTrajectory == [i \in Rows |-> [j \in Joints |-> 0]]
EmptyResponse == [error_code_ |-> "UNSET", trajectory_ |-> <<>>,
                  processing_time_ |-> <<>>]

SolveInit ==
    /\ pc = "start"
    /\ req = NoRequest
    /\ params = NoParams
    /\ params_nonconst = NoParams
    /\ org = OrgDefaults
    /\ replan_count = 0
    /\ replan_flag = FALSE
    /\ optimizer = NoOptimizer
    /\ optimizers_created = 0
    /\ optimize_calls = 0
    /\ trajectory = ZeroTrajectory
    /\ res = EmptyResponse
    /\ ret = "none"
    /\ failure = "None"

(***************************************************************************)
(* solve, lines 50-200: validation, trajectory set-up, capture of the      *)
(* caller's parameters.                                                    *)
(***************************************************************************)
SolveEntry ==
    /\ pc = "start"
    /\ \E jcs \in JointConstraintSeqs, p \in CallerParams :
        /\ params' = p
        /\ req' = [joint_constraints |-> jcs]
        /\ \/ \E planning_scene \in BOOLEAN, start_ok \in BOOLEAN, n_goals \in 0..2,
                 pos_c \in BOOLEAN, ori_c \in BOOLEAN, goal_ok \in BOOLEAN :
                LET kind == EntryCheck(planning_scene, start_ok, n_goals, jcs,
                                       pos_c, ori_c, goal_ok)
                IN  /\ kind # "None"
                    /\ res' = [res EXCEPT !.error_code_ = ErrorCodeOf(kind)]
                    /\ ret' = "false"
                    /\ failure' = kind
                    /\ pc' = "returned"
                    /\ UNCHANGED <<params_nonconst, org, trajectory>>
           \/ \E start_state \in [Joints -> Positions], filled \in TrajContents :
                LET goal_index == SolveNumPoints - 1
                IN  /\ EntryCheck(TRUE, TRUE, 1, jcs, FALSE, FALSE, TRUE) = "None"
                    /\ trajectory' = [filled EXCEPT
                                        ![0] = start_state,
                                        ![goal_index] = GoalState(start_state, jcs)]
                    /\ org' = [learning_rate_ |-> p.learning_rate_,
                               ridge_factor_ |-> p.ridge_factor_,
                               planning_time_limit_ |-> p.planning_time_limit_,
                               max_iterations_ |-> p.max_iterations_]
                    /\ params_nonconst' = p
                    /\ pc' = "loop"
                    /\ UNCHANGED <<res, ret, failure>>
    /\ UNCHANGED <<replan_count, replan_flag, optimizer, optimizers_created,
                   optimize_calls>>
    /\ UNCHANGED <<trajVars, fillVars, outVars>>

(***************************************************************************)
(* solve, lines 203-250: one iteration of the recovery loop.  The          *)
(* optimizer is an external collaborator: whether it initializes, what     *)
(* optimize() returns, whether it reports the path collision free and what *)
(* it leaves in the trajectory it was handed are its choices.              *)
(***************************************************************************)
Attempt ==
    /\ pc = "loop"
    /\ params_nonconst' = Escalate(params_nonconst, replan_flag)
    /\ optimizers_created' = optimizers_created + 1
    /\ \/ /\ optimizer' = NoOptimizer
          /\ res' = [res EXCEPT !.error_code_ = ErrorCodeOf("OptimizerInitFailed")]
          /\ ret' = "false"
          /\ failure' = "OptimizerInitFailed"
          /\ pc' = "returned"
          /\ UNCHANGED <<replan_count, replan_flag, optimize_calls, trajectory>>
       \/ \E optimization_result \in BOOLEAN, collision_free \in BOOLEAN,
             optimized \in TrajContents :
            /\ optimizer' = [isInitialized |-> TRUE,
                             optimization_result |-> optimization_result,
                             isCollisionFree |-> collision_free]
            /\ optimize_calls' = optimize_calls + 1
            /\ trajectory' = optimized
            /\ IF ShouldReplan(params_nonconst', optimization_result, replan_count)
               THEN /\ replan_count' = replan_count + 1
                    /\ replan_flag' = TRUE
                    /\ pc' = "loop"
               ELSE /\ pc' = "post"
                    /\ UNCHANGED <<replan_count, replan_flag>>
            /\ UNCHANGED <<res, ret, failure>>
    /\ UNCHANGED <<req, params, org>>
    /\ UNCHANGED <<trajVars, fillVars, outVars>>

(***************************************************************************)
(* solve, lines 252-327: restore the parameters, fill in the response,     *)
(* then the collision gate and the goal tolerance gate.                    *)
(***************************************************************************)
Finish ==
    /\ pc = "post"
    /\ params_nonconst' = setRecoveryParams(params_nonconst, org.learning_rate_,
                              org.ridge_factor_, org.planning_time_limit_,
                              org.max_iterations_)
    /\ LET result == ResultWaypoints(trajectory)
           last_state == result[Len(result)].positions
           kind == IF ~optimizer.isCollisionFree THEN "CollisionDetected"
                   ELSE IF ~GoalCheck(req.joint_constraints, last_state)
                        THEN "GoalToleranceViolated"
                        ELSE "None"
       IN  /\ res' = [error_code_ |-> ErrorCodeOf(kind),
                      trajectory_ |-> <<result>>,
                      processing_time_ |-> <<"elapsed">>]
           /\ ret' = IF kind = "None" THEN "true" ELSE "false"
           /\ failure' = kind
    /\ pc' = "returned"
    /\ UNCHANGED <<req, params, org, replan_count, replan_flag, optimizer,
                   optimizers_created, optimize_calls, trajectory>>
    /\ UNCHANGED <<trajVars, fillVars, outVars>>

(***************************************************************************)
(* ChompTrajectory.  num_points_, start_index_ and end_index_ are size_t:  *)
(* their arithmetic is modular.  The model carries size_t modulo           *)
(* SizeModulus, far above every row count it builds, so a wrapped value    *)
(* lies above every valid index as it does in the build.                   *)
(***************************************************************************)
MaxPoints == 4          \* un-padded buffers have 2..MaxPoints rows
MaxStencil == 3         \* diff_rule_length ranges over 1..MaxStencil
MaxDuration == 4        \* duration and discretization in whole ticks

RowVals == {0, 1}       \* the contents a trajectory row may have

SizeModulus == 2^16

SizeT(x) == x % SizeModulus

\* a size_t result stored in an int
ToInt(u) == IF u >= SizeModulus \div 2 THEN u - SizeModulus ELSE u

NoTraj == [num_points_ |-> 0, start_index_ |-> 0, end_index_ |-> 0,
           trajectory_ |-> <<>>, full_trajectory_index_ |-> <<>>]

UnpaddedEndIndexPastEnd(num_points) == SizeT(num_points)

\* line 56: end_index_(num_points_ - 2)
UnpaddedEndIndex(num_points) == SizeT(num_points - 2)

\* lines 49-61: the constructor from a number of points; init() sizes the
\* matrix and the caller and the fillers give the rows their contents
ChompTrajectoryNumPoints(num_points, contents) ==
    [num_points_ |-> num_points,
     start_index_ |-> 1,
     end_index_ |-> UnpaddedEndIndex(num_points),
     trajectory_ |-> contents,
     full_trajectory_index_ |-> <<>>]

\* line 45: static_cast<size_t>(duration / discretization) + 1
NumPointsOfDuration(duration, discretization) ==
    (duration \div discretization) + 1

PaddedEndIndexNoStartPoint(num_points, length) ==
    SizeT(num_points - (length - 1))

\* line 76: end_index_ = (num_points_ - 1) - (diff_rule_length - 1)
PaddedEndIndex(num_points, length) ==
    SizeT(SizeT(num_points - 1) - (length - 1))

\* line 71
StartExtra(source, length) ==
    ToInt(SizeT((length - 1) - source.start_index_))

\* line 72
EndExtra(source, length) ==
    ToInt(SizeT((length - 1)
                - SizeT(SizeT(source.num_points_ - 1) - source.end_index_)))

\* lines 87-91: the source row of row i of the copy
SourceTrajPoint(i, start_extra, source_num_points) ==
    LET p0 == ToInt(SizeT(i - start_extra))
        p1 == IF p0 < 0 THEN 0 ELSE p0
    IN  IF p1 >= source_num_points THEN ToInt(SizeT(source_num_points - 1))
        ELSE p1

\* lines 63-95: the padded copy.  A source without rows has no row to copy:
\* the read is out of bounds and the copy's row holds whatever it gave (junk).
PaddedCopy(source, length, junk) ==
    LET start_extra == StartExtra(source, length)
        end_extra == EndExtra(source, length)
        num_points == SizeT(source.num_points_ + start_extra + end_extra)
        index == [i \in 0..(num_points - 1) |->
                     SourceTrajPoint(i, start_extra, source.num_points_)]
    IN  [num_points_ |-> num_points,
         start_index_ |-> SizeT(length - 1),
         end_index_ |-> PaddedEndIndex(num_points, length),
         trajectory_ |-> [i \in 0..(num_points - 1) |->
                             IF index[i] \in DOMAIN source.trajectory_
                             THEN source.trajectory_[index[i]]
                             ELSE junk],
         full_trajectory_index_ |-> index]

\* line 104: size_t num_vars_free = end_index_ - start_index_ + 1
NumVarsFree(t) == SizeT(SizeT(t.end_index_ - t.start_index_) + 1)

TrajIdle ==
    /\ traj_pc = "none"
    /\ source_traj = NoTraj
    /\ group_traj = NoTraj
    /\ diff_rule_length = 0
    /\ junk_row = 0
    /\ root_points = 0

\* ChompTrajectory(robot_model, num_points, discretization, group_name)
NewTrajectory ==
    /\ traj_pc = "none"
    /\ \E n \in 2..MaxPoints :
        \E contents \in [0..(n - 1) -> RowVals] :
            /\ source_traj' = ChompTrajectoryNumPoints(n, contents)
            /\ root_points' = n
    /\ traj_pc' = "created"
    /\ UNCHANGED <<group_traj, diff_rule_length, junk_row>>
    /\ UNCHANGED <<solveVars, fillVars, outVars>>

\* ChompTrajectory(robot_model, duration, discretization, group_name)
NewTrajectoryFromDuration ==
    /\ traj_pc = "none"
    /\ \E duration \in 1..MaxDuration, discretization \in 1..MaxDuration :
        LET n == NumPointsOfDuration(duration, discretization)
        IN  /\ duration >= discretization
            /\ n <= MaxPoints
            /\ \E contents \in [0..(n - 1) -> RowVals] :
                 /\ source_traj' = ChompTrajectoryNumPoints(n, contents)
                 /\ root_points' = n
    /\ traj_pc' = "created"
    /\ UNCHANGED <<group_traj, diff_rule_length, junk_row>>
    /\ UNCHANGED <<solveVars, fillVars, outVars>>

\* ChompTrajectory(source_traj, group_name, diff_rule_length) of the buffer
MakePaddedCopy ==
    /\ traj_pc = "created"
    /\ \E length \in 1..MaxStencil, junk \in RowVals :
        /\ group_traj' = PaddedCopy(source_traj, length, junk)
        /\ diff_rule_length' = length
        /\ junk_row' = junk
    /\ traj_pc' = "padded"
    /\ UNCHANGED <<source_traj, root_points>>
    /\ UNCHANGED <<solveVars, fillVars, outVars>>

\* the same constructor, with a padded copy as its source
PadThePaddedCopy ==
    /\ traj_pc = "padded"
    /\ \E length \in 1..MaxStencil, junk \in RowVals :
        /\ source_traj' = group_traj
        /\ group_traj' = PaddedCopy(group_traj, length, junk)
        /\ diff_rule_length' = length
        /\ junk_row' = junk
    /\ UNCHANGED <<traj_pc, root_points>>
    /\ UNCHANGED <<solveVars, fillVars, outVars>>

TrajNext ==
    NewTrajectory \/ NewTrajectoryFromDuration \/ MakePaddedCopy \/ PadThePaddedCopy


(***************************************************************************)
(* ChompTrajectory::fillInFromTrajectory.  An input waypoint is named by   *)
(* its index, a row of the chomp trajectory holds the index of the input   *)
(* waypoint assigned to it.                                                *)
(***************************************************************************)
MaxInputPoints == 8     \* the input trajectory has 0..MaxInputPoints waypoints
MaxChompPoints == 8     \* the trajectory filled has 2..MaxChompPoints rows

\* the end-to-end scenario: 10 input waypoints into the 89 rows of line 69
ScenarioPair == <<10, 89>>

FillInputs ==
    ((0..MaxInputPoints) \X (2..MaxChompPoints)) \cup {ScenarioPair}

GetsBalanceRowInclusive(i, repeated_balance_factor) == i <= repeated_balance_factor

\* line 221: if (i < repeated_balance_factor)
GetsBalanceRow(i, repeated_balance_factor) == i < repeated_balance_factor

\* lines 210-226: the writes of iterations i, i+1, ... of the repeat loop
RECURSIVE RepeatLoop(_, _, _, _, _)
RepeatLoop(i, n_input, repeated_factor, repeated_balance_factor, response_point_id) ==
    IF i >= n_input THEN <<>>
    ELSE LET repeats == [k \in 1..repeated_factor |->
                            <<response_point_id + (k - 1), i>>]
             balance == IF GetsBalanceRow(i, repeated_balance_factor)
                        THEN << <<response_point_id + repeated_factor, i>> >>
                        ELSE <<>>
         IN  repeats \o balance
             \o RepeatLoop(i + 1, n_input, repeated_factor, repeated_balance_factor,
                           response_point_id + repeated_factor + Len(balance))

SampledPointOfNext(i, n_input, n_chomp) == ((i + 1) * n_input) \div n_chomp

\* lines 232-236: floor(i * ((double)num_input_points / num_chomp_trajectory_points));
\* for the sizes of this model the double product has the floor of the exact
\* quotient (the two differ first at 30 input points into 22 rows, row 11)
SampledPoint(i, n_input, n_chomp) == (i * n_input) \div n_chomp

\* lines 234-238
DecimationLoop(n_input, n_chomp) ==
    [r \in 1..n_chomp |-> <<r - 1, SampledPoint(r - 1, n_input, n_chomp)>>]

\* lines 203-239: the assignments fillInFromTrajectory makes, in order
FillWrites(n_input, n_chomp) ==
    LET repeated_factor == n_chomp \div n_input
        repeated_balance_factor == n_chomp % n_input
    IN  IF n_chomp >= n_input
        THEN RepeatLoop(0, n_input, repeated_factor, repeated_balance_factor, 0)
        ELSE DecimationLoop(n_input, n_chomp)

\* lines 244-258: each assignment stores the input point in the chomp row;
\* a write past the last row is kept as a row the matrix does not have
RECURSIVE ApplyWrites(_, _)
ApplyWrites(rows, writes) ==
    IF writes = <<>> THEN rows
    ELSE LET w == Head(writes)
         IN  ApplyWrites([r \in DOMAIN rows \cup {w[1]} |->
                             IF r = w[1] THEN w[2] ELSE rows[r]],
                         Tail(writes))

FillIdle ==
    /\ fill_pc = "ready"
    /\ num_input_points = 0
    /\ num_chomp_points = 2
    /\ fill_writes = <<>>
    /\ fill_rows = [r \in 0..1 |-> -1]
    /\ fill_ret = "none"

FillInit ==
    /\ fill_pc = "ready"
    /\ \E io \in FillInputs :
        /\ num_input_points = io[1]
        /\ num_chomp_points = io[2]
        /\ fill_rows = [r \in 0..(io[2] - 1) |-> -1]
    /\ fill_writes = <<>>
    /\ fill_ret = "none"

\* lines 191-241
FillInFromTrajectory ==
    /\ fill_pc = "ready"
    /\ IF num_input_points < 2
       THEN /\ fill_ret' = "false"
            /\ UNCHANGED <<fill_writes, fill_rows>>
       ELSE /\ fill_writes' = FillWrites(num_input_points, num_chomp_points)
            /\ fill_rows' = ApplyWrites(fill_rows, fill_writes')
            /\ fill_ret' = "true"
    /\ fill_pc' = "done"
    /\ UNCHANGED <<num_input_points, num_chomp_points>>
    /\ UNCHANGED <<solveVars, trajVars, outVars>>

FillNext == FillInFromTrajectory


(***************************************************************************)
(* The output loop of solve (lines 261-293) on its own, for planning       *)
(* groups of 1..MaxOutJoints joints.  Joint j follows j times a profile    *)
(* of positions over the rows.                                             *)
(***************************************************************************)
MaxOutJoints == 8       \* active joints of the planning group: 1..MaxOutJoints
MaxOutPoints == 4       \* rows of the trajectory: 2..MaxOutPoints

OutIdle ==
    /\ out_pc = "ready"
    /\ out_joints = 1
    /\ out_points = 2
    /\ out_traj = [i \in 0..1 |-> [j \in 1..1 |-> 0]]
    /\ out_waypoints = <<>>
    /\ out_vel_reads = {}

OutInit ==
    /\ out_pc = "ready"
    /\ \E n \in 1..MaxOutJoints, m \in 2..MaxOutPoints :
        /\ out_joints = n
        /\ out_points = m
        /\ \E profile \in [0..(m - 1) -> Positions] :
             out_traj = [i \in 0..(m - 1) |-> [j \in 1..n |-> j * profile[i]]]
    /\ out_waypoints = <<>>
    /\ out_vel_reads = {}

\* lines 261-293
FillOutput ==
    /\ out_pc = "ready"
    /\ \E junk \in JunkVelocities :
        out_waypoints' = FilledWaypoints(out_traj, out_points, out_joints, junk)
    /\ out_vel_reads' = InitialVelReads(out_points, out_joints)
    /\ out_pc' = "done"
    /\ UNCHANGED <<out_joints, out_points, out_traj>>
    /\ UNCHANGED <<solveVars, trajVars, fillVars>>

OutNext == FillOutput

(***************************************************************************)
(* Properties of solve, stated for Spec.                                  *)
(***************************************************************************)
Returned == pc = "returned"

\* solve left the recovery loop, by the break or by the return inside it
LoopLeft == pc = "post" \/ (Returned /\ failure \notin EntryFailures)

\* solve got past the loop and applied the two gates
GatesApplied ==
    Returned /\ failure \notin (EntryFailures \cup {"OptimizerInitFailed"})

\* the parameter set solve worked on: its copy once the copy exists
ParameterSet == IF failure \in EntryFailures THEN params ELSE params_nonconst

LastWayPoint ==
    LET result == res.trajectory_[1] IN result[Len(result)].positions

Abs(x) == IF x < 0 THEN -x ELSE x

\* some goal joint constraint cannot be configured or is out of tolerance
GoalViolated(jcs, last_state) ==
    \E k \in 1..Len(jcs) :
        \/ ~jcs[k].configurable
        \/ Abs(last_state[jcs[k].joint_name] - jcs[k].position) > jcs[k].tolerance

\* C1: solve constructs at most max_recovery_attempts_ + 1 optimizers and calls
\* optimize() on no more than it constructed; with enable_failure_recovery_
\* false it has made exactly one attempt when it leaves the loop.
C1_AttemptsBounded ==
    /\ optimizers_created <= params.max_recovery_attempts_ + 1
    /\ optimize_calls <= optimizers_created
    /\ (pc = "loop" => optimizers_created = replan_count)
    /\ (LoopLeft /\ ~params.enable_failure_recovery_) => optimizers_created = 1

C1_Witness ==
    /\ Returned
    /\ params.enable_failure_recovery_
    /\ params.max_recovery_attempts_ = MaxRecovery
    /\ optimizers_created = MaxRecovery + 1
    /\ optimize_calls = MaxRecovery + 1

C3_NoTrajectoryOnFailure ==
    (Returned /\ ret = "false") => res.trajectory_ = <<>>

\* C4 (as claimed): when the gates are applied to a trajectory whose last
\* waypoint violates a goal joint constraint, solve reports
\* GOAL_CONSTRAINTS_VIOLATED, whatever the optimizer reported.
C4_AlwaysGoalToleranceViolated ==
    (GatesApplied /\ GoalViolated(req.joint_constraints, LastWayPoint)) =>
        /\ ret = "false"
        /\ res.error_code_ = "GOAL_CONSTRAINTS_VIOLATED"

\* C4 (amended): when the gates are applied to a trajectory whose last waypoint
\* violates a goal joint constraint, solve never reports success: it returns
\* false with GOAL_CONSTRAINTS_VIOLATED when the optimizer reports the path
\* collision free and with INVALID_MOTION_PLAN when it does not.
C4_GoalGate ==
    (GatesApplied /\ GoalViolated(req.joint_constraints, LastWayPoint)) =>
        /\ ret = "false"
        /\ res.error_code_ # "SUCCESS"
        /\ res.error_code_ = IF optimizer.isCollisionFree
                             THEN "GOAL_CONSTRAINTS_VIOLATED"
                             ELSE "INVALID_MOTION_PLAN"

\* the violation is in the second constraint only, after a successful optimize()
C4_Witness ==
    /\ GatesApplied
    /\ optimizer.optimization_result
    /\ optimizer.isCollisionFree
    /\ Len(req.joint_constraints) = 2
    /\ ~GoalViolated(<<req.joint_constraints[1]>>, LastWayPoint)
    /\ GoalViolated(req.joint_constraints, LastWayPoint)
    /\ res.error_code_ = "GOAL_CONSTRAINTS_VIOLATED"

\* C5: the result code of a failed solve belongs to its failure kind alone:
\* no other failure kind is reported with the same code.
C5_DistinctCodes ==
    (Returned /\ failure # "None") =>
        \A other \in FailureKinds \ {failure} :
            ErrorCodeOf(other) # res.error_code_

(***************************************************************************)
(* Properties of fillInFromTrajectory, stated for FillSpec.                *)
(***************************************************************************)
Filled == fill_pc = "done" /\ num_input_points >= 2

\* the chomp rows an input point was assigned to
RowsHolding(i) == {r \in DOMAIN fill_rows : fill_rows[r] = i}

\* C6: with at least two input points and two chomp rows the fill returns
\* true, assigns every row 0..num_chomp_points-1 exactly once and no other
\* row, and takes every row from an input point in 0..num_input_points-1.
C6_EveryRowOnce ==
    Filled =>
        /\ fill_ret = "true"
        /\ Len(fill_writes) = num_chomp_points
        /\ \A r \in 0..(num_chomp_points - 1) :
              Cardinality({k \in 1..Len(fill_writes) : fill_writes[k][1] = r}) = 1
        /\ \A k \in 1..Len(fill_writes) :
              /\ fill_writes[k][1] \in 0..(num_chomp_points - 1)
              /\ fill_writes[k][2] \in 0..(num_input_points - 1)
        /\ DOMAIN fill_rows = 0..(num_chomp_points - 1)

\* the decimation branch, its last row taken from the last third of the input
C6_Witness ==
    /\ Filled
    /\ num_input_points > num_chomp_points
    /\ num_chomp_points >= 3
    /\ fill_rows[num_chomp_points - 1] < num_input_points - 1
    /\ fill_rows[num_chomp_points - 1] > 0

\* C7: with no more input points than chomp rows, input point i holds
\* repeat + 1 rows when i < remainder and repeat rows otherwise, the rows are
\* assigned in increasing order and the input point never decreases along
\* them; 10 input points into 89 rows give 9 rows to each of the points 0..8
\* and 8 rows to point 9.
C7_RepeatCounts ==
    (Filled /\ num_input_points <= num_chomp_points) =>
        LET repeat == num_chomp_points \div num_input_points
            remainder == num_chomp_points % num_input_points
        IN  /\ \A i \in 0..(num_input_points - 1) :
                  Cardinality(RowsHolding(i)) =
                      IF i < remainder THEN repeat + 1 ELSE repeat
            /\ \A k \in 1..Len(fill_writes) : fill_writes[k][1] = k - 1
            /\ \A r1, r2 \in DOMAIN fill_rows :
                  r1 <= r2 => fill_rows[r1] <= fill_rows[r2]
            /\ <<num_input_points, num_chomp_points>> = ScenarioPair =>
                  /\ \A i \in 0..8 : Cardinality(RowsHolding(i)) = 9
                  /\ Cardinality(RowsHolding(9)) = 8

C7_Witness ==
    /\ Filled
    /\ <<num_input_points, num_chomp_points>> = ScenarioPair
    /\ RowsHolding(8) = 72..80
    /\ RowsHolding(9) = 81..88

(***************************************************************************)
(* Properties of the trajectory buffers, stated for TrajSpec.              *)
(***************************************************************************)
Padded == traj_pc = "padded"

Max0(x) == IF x < 0 THEN 0 ELSE x

Clamp(x, lo, hi) == IF x < lo THEN lo ELSE IF x > hi THEN hi ELSE x

\* the padding the copy needs before and after the source's rows
NeededBefore == (diff_rule_length - 1) - source_traj.start_index_
NeededAfter ==
    (diff_rule_length - 1) - ((source_traj.num_points_ - 1) - source_traj.end_index_)

\* C8: the padded copy's free range is as long as the source's, and its rows
\* before the source's first row and after its last row hold the source's
\* first and last row.
C8_PaddedCopy ==
    Padded =>
        /\ NumVarsFree(group_traj) = NumVarsFree(source_traj)
        /\ source_traj.num_points_ >= 1 =>
              \A i \in 0..(group_traj.num_points_ - 1) :
                  /\ i < NeededBefore =>
                        group_traj.trajectory_[i] = source_traj.trajectory_[0]
                  /\ i >= NeededBefore + source_traj.num_points_ =>
                        group_traj.trajectory_[i] =
                            source_traj.trajectory_[source_traj.num_points_ - 1]

\* padding on both sides of a source whose boundary rows differ from its inside
C8_Witness ==
    /\ Padded
    /\ diff_rule_length = 3
    /\ source_traj.num_points_ = 3
    /\ source_traj.start_index_ = 1
    /\ source_traj.trajectory_ = [i \in 0..2 |-> IF i = 1 THEN 0 ELSE 1]
    /\ group_traj.num_points_ = 5
    /\ group_traj.trajectory_[0] = 1
    /\ group_traj.trajectory_[4] = 1

WellFormed(t) ==
    /\ 0 <= t.start_index_
    /\ t.start_index_ <= t.end_index_
    /\ t.end_index_ <= t.num_points_ - 1

\* C9: the copy of a well-formed source is sized with the padding max(0, .) on
\* each side, is never shorter than its source, and its row i holds the
\* source's row clamp(i - startExtra, 0, num_points - 1).
C9_NonNegativePadding ==
    (Padded /\ WellFormed(source_traj)) =>
        LET startExtra == Max0(NeededBefore)
            endExtra == Max0(NeededAfter)
            n == source_traj.num_points_
        IN  /\ group_traj.num_points_ = n + startExtra + endExtra
            /\ group_traj.num_points_ >= n
            /\ \A i \in 0..(group_traj.num_points_ - 1) :
                  /\ group_traj.full_trajectory_index_[i] =
                        Clamp(i - startExtra, 0, n - 1)
                  /\ group_traj.trajectory_[i] =
                        source_traj.trajectory_[Clamp(i - startExtra, 0, n - 1)]

BuffersWellFormed ==
    /\ traj_pc # "none" => WellFormed(source_traj)
    /\ traj_pc = "created" =>
          /\ source_traj.start_index_ = 1
          /\ source_traj.end_index_ = source_traj.num_points_ - 2
    /\ Padded => WellFormed(group_traj)

\* C10 (as claimed): every buffer made with at least 2 points, and every
\* padded copy descending from it, has 0 <= start_index_ <= end_index_ <=
\* num_points_ - 1.
C10_WellFormedFromTwo == root_points >= 2 => BuffersWellFormed

\* C10 (amended): every buffer made with at least 3 points, and every padded
\* copy descending from it, has 0 <= start_index_ <= end_index_ <=
\* num_points_ - 1; un-padded, start_index_ = 1 and end_index_ = num_points_ - 2.
C10_WellFormedFromThree == root_points >= 3 => BuffersWellFormed

\* the smallest case: 3 points, copied with diff_rule_length 1
C10_Witness ==
    /\ Padded
    /\ root_points = 3
    /\ source_traj.start_index_ = 1
    /\ diff_rule_length = 1
    /\ group_traj.num_points_ = 1
    /\ group_traj.start_index_ = 0
    /\ group_traj.end_index_ = 0

(***************************************************************************)
(* Properties of the recovery loop and of the output of solve.             *)
(***************************************************************************)
\* C11: in the waypoint sequence emitted by solve, the first waypoint has zero
\* duration from the previous one and every later waypoint the same fixed step.
C11_FirstWaypointZeroDuration ==
    GatesApplied =>
        LET result == res.trajectory_[1]
        IN  /\ result[1].duration_from_previous = 0
            /\ \A r \in 2..Len(result) :
                 result[r].duration_from_previous = WaypointStep

\* the recovery parameters of the caller's set p after k escalations
EscalatedBy(p, k) ==
    [p EXCEPT !.learning_rate_ = p.learning_rate_ + (k * 2),
              !.ridge_factor_ = p.ridge_factor_ + (k * 2),
              !.planning_time_limit_ = p.planning_time_limit_ + (k * 5),
              !.max_iterations_ = p.max_iterations_ + (k * 50)]

\* a step that starts an attempt, that is, constructs an optimizer
AttemptStarts == optimizers_created' # optimizers_created

\* C12: attempt k (from 0) runs with the caller's values plus k times the
\* increments (2, 2, 5, 50); an attempt after the first starts only if the one
\* before it initialized, its optimize() returned false, recovery is enabled
\* and fewer than max_recovery_attempts_ retries were made, and runs with the
\* previous attempt's parameters plus the increments; an optimizer that fails
\* to initialize ends solve with OptimizerInitFailed, no optimize(), no retry.
C12_RecoveryStep ==
    [][ /\ AttemptStarts =>
            /\ optimizers_created' = optimizers_created + 1
            /\ params_nonconst' = EscalatedBy(params, optimizers_created)
            /\ optimizers_created > 0 =>
                 /\ optimizer.isInitialized
                 /\ ~optimizer.optimization_result
                 /\ params.enable_failure_recovery_
                 /\ optimizers_created - 1 < params.max_recovery_attempts_
                 /\ params_nonconst' = EscalatedBy(params_nonconst, 1)
        /\ (AttemptStarts /\ ~optimizer'.isInitialized) =>
            /\ optimize_calls' = optimize_calls
            /\ pc' = "returned"
            /\ ret' = "false"
            /\ failure' = "OptimizerInitFailed"
        /\ (AttemptStarts /\ optimizer'.isInitialized) =>
            optimize_calls' = optimize_calls + 1
        /\ Returned => ~AttemptStarts
      ]_vars

\* the last of MaxRecovery + 1 attempts has run, with every escalation applied
C12_Witness ==
    /\ pc = "post"
    /\ optimizers_created = MaxRecovery + 1
    /\ optimize_calls = MaxRecovery + 1
    /\ ~optimizer.optimization_result
    /\ params_nonconst = EscalatedBy(params, MaxRecovery)
    /\ params_nonconst.max_iterations_ = params.max_iterations_ + (MaxRecovery * 50)

\* the output loop has run
OutputFilled == out_pc = "done"

\* C13: for every joint count >= 1 the first and the last waypoint report zero
\* velocity for every joint, initial_vel is never read outside its bounds, and
\* an interior waypoint i reports for joint j the value (D * column j)[i].
C13_BoundaryZeroInteriorDifference ==
    OutputFilled =>
        /\ \A j \in 1..out_joints :
             /\ out_waypoints[1].velocities[j] = 0
             /\ out_waypoints[out_points].velocities[j] = 0
        /\ \A v \in out_vel_reads : v \in 0..(InitialVelSize - 1)
        /\ \A r \in 2..(out_points - 1), j \in 1..out_joints :
             out_waypoints[r].velocities[j] =
                 VelocityMatrix(out_traj, out_points, r - 1, j)

\* C14: solve returns true with the success code only if the last attempt's
\* optimize() returned true, the optimizer reports the path collision free and
\* the last waypoint satisfies every goal joint constraint.
C14_SuccessOnlyAfterOptimizeTrue ==
    (Returned /\ ret = "true") =>
        /\ res.error_code_ = ErrorCodeOf("None")
        /\ optimizer.optimization_result
        /\ optimizer.isCollisionFree
        /\ ~GoalViolated(req.joint_constraints, LastWayPoint)

Init == SolveInit /\ TrajIdle /\ FillIdle /\ OutIdle

Next == SolveEntry \/ Attempt \/ Finish

Spec == Init /\ [][Next]_vars

\* the trajectory buffers on their own
TrajInit == SolveInit /\ TrajIdle /\ FillIdle /\ OutIdle

TrajSpec == TrajInit /\ [][TrajNext]_vars

\* fillInFromTrajectory on its own
FillSpecInit == SolveInit /\ TrajIdle /\ FillInit /\ OutIdle

FillSpec == FillSpecInit /\ [][FillNext]_vars

\* the output loop on its own
OutSpecInit == SolveInit /\ TrajIdle /\ FillIdle /\ OutInit

OutSpec == OutSpecInit /\ [][OutNext]_vars

====
